---- MODULE Spec2Model ----
(***************************************************************************)
(* b2-node-proxy: the GET pipeline of the Express server                   *)
(* (src/unnamed/part_001) and of the Cloudflare worker (src/index.js),     *)
(* which carries the same functions behind a handler of its own           *)
(* (SpecWorker).  One request is followed from the version listing        *)
(* through deduplication, the best-effort deletes, the downloads and the  *)
(* PDF merge to the HTTP response.  The B2 bucket is the environment: a   *)
(* listing of file versions sorted by file name, answered page by page.   *)
(***************************************************************************)
EXTENDS Naturals, Integers, Sequences, FiniteSets, TLC

\* ------------------------------------------------------------------ bounds
MaxVersions == 3
MaxSha == 3
MaxPageSize == 2
MaxDate == 2
MaxUploads == 1

\* ------------------------------------------------------- program constants
\* maxFileCount: '10000' of the listing request
MaxFileCount == 10000
\* let startFileId = null
NoId == 0
\* a falsy file name (null, undefined, '')
NoName == << >>
\* bytes that carry no creation date of their own making
NoDate == 0
\* The dates PDFDocument.create() may read off the clock.
Dates == 1..MaxDate

\* --------------------------------------------------------------- file names
\* File names are sequences of characters (here: small numbers).
ReqPath == <<1>>
SiblingPath == <<1, 1>>
OtherPath == <<2>>
\* the path 'health', as the worker reads it: the name of a file
HealthPath == <<3>>

Min(a, b) == IF a <= b THEN a ELSE b

\* String.prototype.startsWith, the meaning of B2's prefix parameter
IsPrefix(p, s) ==
    /\ Len(p) <= Len(s)
    /\ \A i \in 1..Len(p) : p[i] = s[i]

\* B2 lists file names in lexicographic order
NameLess(a, b) ==
    \/ /\ Len(a) < Len(b)
       /\ \A i \in 1..Len(a) : a[i] = b[i]
    \/ \E k \in 1..Min(Len(a), Len(b)) :
          /\ a[k] < b[k]
          /\ \A i \in 1..(k - 1) : a[i] = b[i]

\* ------------------------------------------------------ the bucket (B2)
\* A file version as b2_list_file_versions reports it.
\* action "hide" is a hide marker; its contentSha1 is 0 ("none").
PathKinds ==
    [name : {ReqPath}, action : {"upload"}, contentSha1 : 1..MaxSha]
        \cup {[name |-> ReqPath, action |-> "hide", contentSha1 |-> 0]}

FileKinds ==
    PathKinds \cup [name : {SiblingPath, OtherPath}, action : {"upload"},
                    contentSha1 : {1}]

\* The listing is sorted by file name; versions of one name are adjacent.
SortedByName(s) ==
    \A i \in 1..Len(s) : \A j \in 1..Len(s) :
        i < j => ~NameLess(s[j].name, s[i].name)

\* fileId grows with the position in the listing; every version has its own
\* contentLength, and even versions carry no contentType
WithIds(s) ==
    [i \in 1..Len(s) |->
        [fileId |-> i, fileName |-> s[i].name, action |-> s[i].action,
         contentSha1 |-> s[i].contentSha1,
         contentLength |-> 100 + i,
         contentType |-> IF i % 2 = 1 THEN "application/pdf" ELSE ""]]

\* Fingerprints are only compared for equality: a new fingerprint is the
\* smallest number no earlier version uses.
FirstUse(s) ==
    \A i \in 1..Len(s) :
        s[i].contentSha1 > 1 =>
            \E j \in 1..(i - 1) : s[j].contentSha1 = s[i].contentSha1 - 1

Buckets ==
    {WithIds(s) : s \in {t \in UNION {[1..n -> FileKinds] : n \in 0..MaxVersions} :
                            SortedByName(t) /\ FirstUse(t)}}

\* The files of the bucket from the cursor on, among those with the prefix.
FromCursor(bucket, prefix, startName, startId) ==
    SelectSeq(bucket, LAMBDA f :
        /\ IsPrefix(prefix, f.fileName)
        /\ \/ NameLess(startName, f.fileName)
           \/ /\ f.fileName = startName
              /\ (startId = NoId \/ f.fileId >= startId))

\* The response body of b2_list_file_versions: at most `count` files (the
\* server caps the page at `cap`) and the cursor of the first file not returned.
B2ListFileVersions(bucket, prefix, startName, startId, count, cap) ==
    LET rest == FromCursor(bucket, prefix, startName, startId)
        n == Min(Min(count, cap), Len(rest))
    IN  [files |-> SubSeq(rest, 1, n),
         nextFileName |-> IF Len(rest) > n THEN rest[n + 1].fileName ELSE NoName,
         nextFileId |-> IF Len(rest) > n THEN rest[n + 1].fileId ELSE NoId]

\* a delete that answers 2xx and removes nothing
B2DeleteFileVersion_Keeps(bucket, fileId) == bucket

\* b2_delete_file_version removes exactly the version with that id
B2DeleteFileVersion(bucket, fileId) ==
    SelectSeq(bucket, LAMBDA f : f.fileId # fileId)

\* The bytes b2_download_file_by_id returns for a version.
FileBytes(fileId) ==
    [kind |-> "raw", of |-> fileId, pages |-> << >>, created |-> NoDate]

\* The pages of the document stored in a buffer: odd versions hold two
\* pages, even versions one.
PageCount(fileId) == IF fileId % 2 = 1 THEN 2 ELSE 1

PagesOf(buffer) == [k \in 1..PageCount(buffer.of) |-> <<buffer.of, k>>]

\* ---------------------------------------------------------- listFileVersions
\* the filter without the action test
MatchingFiles_AnyAction(files, fileName) ==
    SelectSeq(files, LAMBDA f : f.fileName = fileName)

\* data.files.filter(f => f.fileName === fileName && f.action === 'upload')
MatchingFiles(files, fileName) ==
    SelectSeq(files, LAMBDA f : f.fileName = fileName /\ f.action = "upload")

\* the loop going on while any nextFileName is returned
MoreResults_AnyNext(data, fileName) == data.nextFileName # NoName

\* if (data.nextFileName && data.nextFileName === fileName)
MoreResults(data, fileName) ==
    data.nextFileName # NoName /\ data.nextFileName = fileName

\* ------------------------------------------- deduplicateAndCombineVersions
\* The Map versionsByHash is a sequence of entries [hash, group] in insertion
\* order, which is the order Map.prototype.entries() iterates in.
HasHash(m, hash) == \E i \in 1..Len(m) : m[i].hash = hash

\* if (!has(hash)) set(hash, []); get(hash).push(version)
MapPush(m, version) ==
    LET hash == version.contentSha1
        m1 == IF HasHash(m, hash) THEN m
              ELSE Append(m, [hash |-> hash, group |-> << >>])
    IN  [i \in 1..Len(m1) |->
            IF m1[i].hash = hash
            THEN [m1[i] EXCEPT !.group = Append(@, version)]
            ELSE m1[i]]

RECURSIVE GroupFrom(_, _)
GroupFrom(versions, m) ==
    IF versions = << >> THEN m
    ELSE GroupFrom(Tail(versions), MapPush(m, Head(versions)))

\* for (const version of versions) { ... }
VersionsByHash(versions) == GroupFrom(versions, << >>)

\* uniqueVersions.push(versionGroup[0])
UniqueVersions_KeepLast(m) == [i \in 1..Len(m) |-> m[i].group[Len(m[i].group)]]

\* the groups taken from the last inserted to the first
UniqueVersions_NewestFirst(m) ==
    [i \in 1..Len(m) |-> m[Len(m) + 1 - i].group[1]]

UniqueVersions(m) == [i \in 1..Len(m) |-> m[i].group[1]]

RECURSIVE ConcatGroups(_)
ConcatGroups(m) ==
    IF m = << >> THEN << >> ELSE Head(m).group \o ConcatGroups(Tail(m))

\* the inner loop started at i = 0 instead of i = 1
VersionsToDelete_FromZero(m) == ConcatGroups(m)

RECURSIVE VersionsToDelete_KeepNewest(_)
\* every version of a group but its last one
VersionsToDelete_KeepNewest(m) ==
    IF m = << >> THEN << >>
    ELSE SubSeq(Head(m).group, 1, Len(Head(m).group) - 1)
            \o VersionsToDelete_KeepNewest(Tail(m))

RECURSIVE VersionsToDelete(_)
\* for (let i = 1; i < versionGroup.length; i++) versionsToDelete.push(...)
VersionsToDelete(m) ==
    IF m = << >> THEN << >>
    ELSE Tail(Head(m).group) \o VersionsToDelete(Tail(m))

\* ---------------------------------------------------------------- combinePDFs
\* every buffer is taken to be a PDF
Loads_Always(buffer, corrupt) == TRUE

\* PDFDocument.load(buffer) throws on bytes that are no PDF document.
Loads(buffer, corrupt) == buffer.of \notin corrupt

RECURSIVE MergedPages_Prepend(_)
MergedPages_Prepend(pdfBuffers) ==
    IF pdfBuffers = << >> THEN << >>
    ELSE MergedPages_Prepend(Tail(pdfBuffers)) \o PagesOf(Head(pdfBuffers))

RECURSIVE MergedPages(_)
\* copyPages(pdf, pdf.getPageIndices()) then addPage for each, buffer by buffer
MergedPages(pdfBuffers) ==
    IF pdfBuffers = << >> THEN << >>
    ELSE PagesOf(Head(pdfBuffers)) \o MergedPages(Tail(pdfBuffers))

\* The bytes mergedPdf.save() returns: the pages added, and the creation and
\* modification date PDFDocument.create() has put into the document.
SavedPdf(pages, date) ==
    [kind |-> "pdf", of |-> NoId, pages |-> pages, created |-> date]

\* if (versions.length === 0) return null  (an off-by-one: <= 1)
AfterListing_OffByOne(versions) ==
    IF Len(versions) <= 1 THEN "zero" ELSE "dedupe"

\* two versions taken for one: if (versions.length <= 2)
AfterListing_PairIsSingle(versions) ==
    IF Len(versions) = 0 THEN "zero"
    ELSE IF Len(versions) <= 2 THEN "only"
    ELSE "dedupe"

\* The branch taken on the listed versions.
AfterListing(versions) ==
    IF Len(versions) = 0 THEN "zero"
    ELSE IF Len(versions) = 1 THEN "only"
    ELSE "dedupe"

\* the test uniqueVersions.length === 1 left out
AfterDedupe_NoSingleCase(uniqueVersions, mergeEnabled) ==
    IF ~mergeEnabled THEN "no_merge" ELSE "merge"

\* The branch taken once the duplicates have been deleted.
AfterDedupe(uniqueVersions, mergeEnabled) ==
    IF Len(uniqueVersions) = 1 THEN "one_unique"
    ELSE IF ~mergeEnabled THEN "no_merge"
    ELSE "merge"

\* "returning latest": the last unique version instead of the first
DownloadTargets_Latest(branch, versions, uniqueVersions) ==
    CASE branch = "only" -> <<versions[1]>>
      [] branch = "one_unique" -> <<uniqueVersions[1]>>
      [] branch = "no_merge" -> <<uniqueVersions[Len(uniqueVersions)]>>
      [] branch = "merge" -> uniqueVersions
      [] OTHER -> << >>

\* the download loop run twice over the survivors
DownloadTargets_Twice(branch, versions, uniqueVersions) ==
    CASE branch = "only" -> <<versions[1]>>
      [] branch = "one_unique" -> <<uniqueVersions[1]>>
      [] branch = "no_merge" -> <<uniqueVersions[1]>>
      [] branch = "merge" -> uniqueVersions \o uniqueVersions
      [] OTHER -> << >>

\* The versions each branch passes to downloadFile, in call order.
DownloadTargets(branch, versions, uniqueVersions) ==
    CASE branch = "only" -> <<versions[1]>>
      [] branch = "one_unique" -> <<uniqueVersions[1]>>
      [] branch = "no_merge" -> <<uniqueVersions[1]>>
      [] branch = "merge" -> uniqueVersions
      [] OTHER -> << >>

\* combinePDFs called as soon as one buffer is there
MoreDownloads_StopEarly(done, targets) == FALSE

\* for (const version of uniqueVersions) pdfBuffers.push(await downloadFile())
\* goes on while a survivor is left to download.
MoreDownloads(done, targets) == Len(done) < Len(targets)

\* the catch of listFileVersions' caller does not rethrow either
Swallowed_ListToo(site) == site \in {"delete", "list"}

\* a failed handshake is logged and the handler goes on
Swallowed_AuthToo(site) == site \in {"delete", "auth"}

\* no try/catch around any call
Swallowed_Nowhere(site) == FALSE

\* try { await deleteFileVersion(...) } catch (error) { console.error(...) }
\* is the only catch that does not rethrow.
Swallowed(site) == site = "delete"

\* ------------------------------------------------------------ app.get('/*')
NoData == [kind |-> "none", of |-> NoId, pages |-> << >>, created |-> NoDate]

NoSegment == ""

\* A text handed to res.send: what it says and, for the text that names a
\* prefix, the prefix and the keys of the map.
PlainText(what) == [what |-> what, prefix |-> NoSegment, available |-> {}]

NoText == PlainText("")

\* An answer: its status, the file bytes sent, the message of the error
\* sent, the text sent.
NoResponse == [status |-> 0, body |-> NoData, error |-> "", text |-> NoText]

\* the null result answered like a file
SendFile_Always200(fileData) ==
    [status |-> 200, body |-> fileData, error |-> "", text |-> NoText]

\* if (fileData === null) return res.status(404).send('Not Found')
\* ... res.status(200).send(fileData)
SendFile(fileData) ==
    IF fileData = NoData
    THEN [status |-> 404, body |-> NoData, error |-> "",
          text |-> PlainText("Not Found")]
    ELSE [status |-> 200, body |-> fileData, error |-> "", text |-> NoText]

\* res.status(500).send() without the message
SendError_NoMessage(message) ==
    [status |-> 500, body |-> NoData, error |-> "", text |-> NoText]

\* catch (error) { res.status(500).send(`Error: ${error.message}`) }
SendError(message) ==
    [status |-> 500, body |-> NoData, error |-> message, text |-> NoText]

\* res.status(code).send(text): an answer that is neither file nor error
SendText(code, text) ==
    [status |-> code, body |-> NoData, error |-> "", text |-> text]

\* ----------------------------------------------------------------- the router
\* A request: its method, the first segment of its path, the rest of the
\* path (NoName when there is none) and whether the rest ends in '.pdf'.
\* GET /health has the one segment "health", GET / has no segment at all.

\* The extension is varied where the path can name stored versions.
FileRequests ==
    [method : {"GET", "HEAD"}, first : {"invoices"},
     rest : {ReqPath}, isPdf : BOOLEAN]
        \cup [method : {"GET", "HEAD"},
              first : {"reports", "other", "constructor"},
              rest : {ReqPath}, isPdf : {FALSE}]
        \cup [method : {"GET"}, first : {"invoices", "other"},
              rest : {NoName}, isPdf : {FALSE}]

Requests ==
    FileRequests
        \cup [method : {"GET"}, first : {"health", "HEALTH", NoSegment},
              rest : {NoName}, isPdf : {FALSE}]

\* String.prototype.toLowerCase, on the segments of this model
ToLowerCase(segment) == IF segment = "HEALTH" THEN "health" ELSE segment

\* app.get('/health', ...) is registered before app.get('/*', ...); Express
\* matches the path of a route without regard to case
Route(req) ==
    IF ToLowerCase(req.first) = "health" /\ req.rest = NoName
    THEN "health" ELSE "files"

\* B2_BUCKET_MAP={"invoices":"bucket_1","reports":"bucket_2"}
BucketMap == [p \in {"invoices", "reports"} |->
                 IF p = "invoices" THEN "bucket_1" ELSE "bucket_2"]

NoBucket == ""

\* What the object JSON.parse returns inherits from Object.prototype: its
\* twelve names, each with its value as String() shows it.
ObjectPrototypeNames ==
    {"constructor", "__proto__",
     "toString", "toLocaleString", "valueOf",
     "hasOwnProperty", "isPrototypeOf", "propertyIsEnumerable",
     "__defineGetter__", "__defineSetter__", "__lookupGetter__",
     "__lookupSetter__"}

ObjectPrototype ==
    [name \in ObjectPrototypeNames |->
        CASE name = "constructor" -> "function Object() { [native code] }"
          [] name = "__proto__" -> "[object Object]"
          [] name = "toString" ->
                 "function toString() { [native code] }"
          [] name = "toLocaleString" ->
                 "function toLocaleString() { [native code] }"
          [] name = "valueOf" ->
                 "function valueOf() { [native code] }"
          [] name = "hasOwnProperty" ->
                 "function hasOwnProperty() { [native code] }"
          [] name = "isPrototypeOf" ->
                 "function isPrototypeOf() { [native code] }"
          [] name = "propertyIsEnumerable" ->
                 "function propertyIsEnumerable() { [native code] }"
          [] name = "__defineGetter__" ->
                 "function __defineGetter__() { [native code] }"
          [] name = "__defineSetter__" ->
                 "function __defineSetter__() { [native code] }"
          [] name = "__lookupGetter__" ->
                 "function __lookupGetter__() { [native code] }"
          [] name = "__lookupSetter__" ->
                 "function __lookupSetter__() { [native code] }"]

\* bucketId = bucketMap[bucketPrefix]: the value of the key, else the
\* inherited property of that name, else undefined
Lookup(bucketMap, bucketPrefix) ==
    IF bucketPrefix \in DOMAIN bucketMap THEN bucketMap[bucketPrefix]
    ELSE IF bucketPrefix \in DOMAIN ObjectPrototype
    THEN ObjectPrototype[bucketPrefix]
    ELSE NoBucket

\* `Bucket prefix '...' not found. Available prefixes: ...`
PrefixNotFound(bucketMap, bucketPrefix) ==
    [what |-> "Bucket prefix not found", prefix |-> bucketPrefix,
     available |-> DOMAIN bucketMap]

\* The files of this model live in bucket_1; bucket_2 is empty.
BucketContent(bucketId, bucket) ==
    IF bucketId = "bucket_1" THEN bucket ELSE << >>

\* the HEAD test left out: a HEAD request runs the GET pipeline
IsHead_Never(method) == FALSE

\* if (req.method === 'HEAD')
IsHead(method) == method = "HEAD"

NoHeaders == [contentType |-> "", contentLength |-> 0]

\* 'Content-Type': latestVersion.contentType || 'application/octet-stream',
\* 'Content-Length': latestVersion.contentLength.toString()
HeadersOf(version) ==
    [contentType |-> IF version.contentType # "" THEN version.contentType
                     ELSE "application/octet-stream",
     contentLength |-> version.contentLength]

\* const latestVersion = versions[0]
LatestVersion(versions) == versions[1]

\* -------------------------------------------------------------------- state
VARIABLES
    bucket,            \* the file versions of the bucket, in listing order
    cap,               \* the page size the server answers with
    corrupt,           \* the file ids whose bytes are no PDF document
    isPdf,             \* filePath.toLowerCase().endsWith('.pdf')
    mergeVersions,     \* String(process.env.MERGE_PDF_VERSIONS) === 'true'
    pc,                \* the await the request is suspended at
    startFileName,     \* listFileVersions: cursor
    startFileId,
    versions,          \* listFileVersions: versions collected so far
    listCalls,         \* the cursors of the listing requests issued
    listPages,         \* the listing responses received
    branch,            \* the branch of deduplicateAndCombineVersions taken
    uniqueVersions,
    versionsToDelete,
    deleteCalls,       \* the file ids deleteFileVersion was called with
    deleteFailed,      \* those of them that answered non-2xx
    downloadCalls,     \* the file ids downloadFile was called with
    pdfBuffers,        \* the bytes downloaded so far
    combineCalls,      \* the number of combinePDFs calls
    response,          \* the HTTP response sent, NoResponse before
    credentials,       \* B2_APPLICATION_KEY_ID and B2_APPLICATION_KEY are set
    method,            \* req.method
    bucketPrefix,      \* pathSegments[0]
    filePath,          \* pathSegments.slice(1).join('/')
    route,             \* the route that handles the request
    bucketAtStart,     \* the bucket as it was when the request arrived
    prevDeleteFailed,  \* the deletes that failed in the request before
    prevResponse,      \* the answer of the GET this request repeats
    authCalls,         \* the number of b2_authorize_account calls
    authData,          \* b2Authorize has returned the session
    bucketId,          \* bucketMap[bucketPrefix]
    headers,           \* Content-Type / Content-Length of a HEAD answer
    parked,            \* the other request in flight, as it is at its await
    uploads            \* the number of versions uploaded since the start

envVars == <<cap, corrupt, mergeVersions, credentials>>
reqVars == <<method, bucketPrefix, filePath, isPdf, route, bucketAtStart,
             prevDeleteFailed, prevResponse>>
authVars == <<authCalls, authData, bucketId>>
listVars == <<startFileName, startFileId, versions, listCalls, listPages>>
dedupeVars == <<uniqueVersions, versionsToDelete>>
deleteVars == <<deleteCalls, deleteFailed>>
downloadVars == <<downloadCalls, pdfBuffers>>
peerVars == <<parked, uploads>>

vars == <<bucket, envVars, peerVars, reqVars, authVars, pc, listVars, branch,
          dedupeVars, deleteVars, downloadVars, combineCalls, response,
          headers>>

\* the flag alone, whatever the extension
mergeEnabled_FlagOnly == mergeVersions

\* isPdf && mergeVersions, the mergeEnabled argument
mergeEnabled == isPdf /\ mergeVersions

FileIds(files) == {files[i].fileId : i \in 1..Len(files)}

IdSeq(files) == [i \in 1..Len(files) |-> files[i].fileId]

\* A request that has not been received yet.
IdleRequest(atStart) ==
    [method |-> "GET", bucketPrefix |-> NoSegment, filePath |-> NoName, isPdf
     |-> FALSE, route |-> "none", bucketAtStart |-> atStart, prevDeleteFailed
     |-> {}, prevResponse |-> NoResponse, authCalls |-> 0, authData |->
     FALSE, bucketId |-> NoBucket, pc |-> "idle", startFileName |-> NoName,
     startFileId |-> NoId, versions |-> << >>, listCalls |-> << >>, listPages
     |-> << >>, branch |-> "none", uniqueVersions |-> << >>, versionsToDelete
     |-> << >>, deleteCalls |-> << >>, deleteFailed |-> {}, downloadCalls |->
     << >>, pdfBuffers |-> << >>, combineCalls |-> 0, response |->
     NoResponse, headers |-> NoHeaders]

Init ==
    /\ bucket \in Buckets
    /\ cap \in 1..MaxPageSize
    /\ corrupt \in {{}} \cup {{i} : i \in 1..MaxVersions}
    /\ mergeVersions \in BOOLEAN
    /\ credentials \in BOOLEAN
    /\ pc = "idle"
    /\ method = "GET"
    /\ bucketPrefix = NoSegment
    /\ filePath = NoName
    /\ isPdf = FALSE
    /\ route = "none"
    /\ bucketAtStart = bucket
    /\ prevDeleteFailed = {}
    /\ prevResponse = NoResponse
    /\ authCalls = 0
    /\ authData = FALSE
    /\ bucketId = NoBucket
    /\ headers = NoHeaders
    /\ startFileName = NoName
    /\ startFileId = NoId
    /\ versions = << >>
    /\ listCalls = << >>
    /\ listPages = << >>
    /\ branch = "none"
    /\ uniqueVersions = << >>
    /\ versionsToDelete = << >>
    /\ deleteCalls = << >>
    /\ deleteFailed = {}
    /\ downloadCalls = << >>
    /\ pdfBuffers = << >>
    /\ combineCalls = 0
    /\ response = NoResponse
    /\ parked = IdleRequest(<< >>)
    /\ uploads = 0

\* The request that is running, as it is parked at its await.
Running ==
    [method |-> method, bucketPrefix |-> bucketPrefix, filePath |-> filePath,
     isPdf |-> isPdf, route |-> route, bucketAtStart |-> bucketAtStart,
     prevDeleteFailed |-> prevDeleteFailed, prevResponse |-> prevResponse,
     authCalls |-> authCalls, authData |-> authData, bucketId |-> bucketId,
     pc |-> pc, startFileName |-> startFileName, startFileId |-> startFileId,
     versions |-> versions, listCalls |-> listCalls, listPages |-> listPages,
     branch |-> branch, uniqueVersions |-> uniqueVersions, versionsToDelete
     |-> versionsToDelete, deleteCalls |-> deleteCalls, deleteFailed |->
     deleteFailed, downloadCalls |-> downloadCalls, pdfBuffers |->
     pdfBuffers, combineCalls |-> combineCalls, response |-> response,
     headers |-> headers]

\* A parked request is given the thread again.
Resume(r) ==
    /\ method' = r.method
    /\ bucketPrefix' = r.bucketPrefix
    /\ filePath' = r.filePath
    /\ isPdf' = r.isPdf
    /\ route' = r.route
    /\ bucketAtStart' = r.bucketAtStart
    /\ prevDeleteFailed' = r.prevDeleteFailed
    /\ prevResponse' = r.prevResponse
    /\ authCalls' = r.authCalls
    /\ authData' = r.authData
    /\ bucketId' = r.bucketId
    /\ pc' = r.pc
    /\ startFileName' = r.startFileName
    /\ startFileId' = r.startFileId
    /\ versions' = r.versions
    /\ listCalls' = r.listCalls
    /\ listPages' = r.listPages
    /\ branch' = r.branch
    /\ uniqueVersions' = r.uniqueVersions
    /\ versionsToDelete' = r.versionsToDelete
    /\ deleteCalls' = r.deleteCalls
    /\ deleteFailed' = r.deleteFailed
    /\ downloadCalls' = r.downloadCalls
    /\ pdfBuffers' = r.pdfBuffers
    /\ combineCalls' = r.combineCalls
    /\ response' = r.response
    /\ headers' = r.headers

\* An error thrown out of the pipeline reaches the handler's catch.
Throw(site) ==
    /\ response' = SendError(site)
    /\ pc' = "done"

\* The variables of one request, as they are before its handler runs.
Fresh ==
    /\ startFileName' = NoName
    /\ startFileId' = NoId
    /\ versions' = << >>
    /\ listCalls' = << >>
    /\ listPages' = << >>
    /\ branch' = "none"
    /\ uniqueVersions' = << >>
    /\ versionsToDelete' = << >>
    /\ deleteCalls' = << >>
    /\ deleteFailed' = {}
    /\ downloadCalls' = << >>
    /\ pdfBuffers' = << >>
    /\ combineCalls' = 0
    /\ authCalls' = 0
    /\ authData' = FALSE
    /\ bucketId' = NoBucket
    /\ bucketAtStart' = bucket

\* Express hands the request to its route.  /health answers at once, and so
\* does the file route for the empty path; every other request goes on to
\* b2Authorize.
Accept(req) ==
    /\ method' = req.method
    /\ bucketPrefix' = req.first
    /\ filePath' = req.rest
    /\ isPdf' = req.isPdf
    /\ route' = Route(req)
    /\ Fresh
    /\ headers' = NoHeaders
    /\ CASE Route(req) = "health" ->
                /\ response' = SendText(200, PlainText("OK"))
                /\ pc' = "done"
         [] Route(req) # "health" /\ req.first = NoSegment ->
                /\ response' = SendText(200, PlainText("Backblaze B2 Proxy"))
                /\ pc' = "done"
         [] OTHER ->
                /\ response' = NoResponse
                /\ pc' = "auth"
    /\ UNCHANGED <<bucket, envVars, peerVars>>

\* The first request the server receives.
Receive ==
    /\ pc = "idle"
    /\ prevDeleteFailed' = {}
    /\ prevResponse' = NoResponse
    /\ \E req \in Requests : Accept(req)

\* The requests for the path that can name stored versions.
PathRequests ==
    {req \in FileRequests : req.first = "invoices" /\ req.rest = ReqPath}

\* A further request for the path, once the request before has been answered.
ReceiveNext ==
    /\ pc = "done"
    /\ prevDeleteFailed' = deleteFailed
    /\ prevResponse' = NoResponse
    /\ \E req \in PathRequests : Accept(req)

\* The GET just answered, all of its deletes having succeeded, is sent again.
ReceiveAgain ==
    /\ pc = "done"
    /\ method = "GET"
    /\ listCalls # << >>
    /\ Len(listCalls) = Len(listPages)
    /\ deleteFailed = {}
    /\ prevDeleteFailed' = deleteFailed
    /\ prevResponse' = response
    /\ Accept([method |-> method, first |-> bucketPrefix, rest |-> filePath,
               isPdf |-> isPdf])

\* b2Authorize has returned: the handler resolves the bucket and the file
\* path and, having read isPdf and mergeVersions, starts listFileVersions.
Resolve ==
    LET id == Lookup(BucketMap, bucketPrefix)
    IN  /\ bucketId' = id
        /\ IF id = NoBucket
           THEN /\ response' =
                       SendText(404, PrefixNotFound(BucketMap, bucketPrefix))
                /\ pc' = "done"
                /\ UNCHANGED <<startFileName, startFileId>>
           ELSE IF filePath = NoName
           THEN /\ response' =
                       SendText(404, PlainText(
                           "File path required after bucket prefix"))
                /\ pc' = "done"
                /\ UNCHANGED <<startFileName, startFileId>>
           ELSE /\ startFileName' = filePath
                /\ startFileId' = NoId
                /\ pc' = "list"
                /\ UNCHANGED response

\* if (!keyId || !key) throw new Error('... are required')
AuthorizeNoKeys ==
    /\ pc = "auth"
    /\ ~credentials
    /\ Throw("keys")
    /\ UNCHANGED <<bucket, envVars, peerVars, reqVars, authVars,
                   headers, listVars, branch, dedupeVars, deleteVars,
                   downloadVars, combineCalls>>

\* The handshake answers 2xx and b2Authorize returns the session.
AuthorizeOk ==
    /\ pc = "auth"
    /\ credentials
    /\ authCalls' = authCalls + 1
    /\ authData' = TRUE
    /\ Resolve
    /\ UNCHANGED <<bucket, envVars, peerVars, reqVars, headers, versions,
                   listCalls, listPages, branch, dedupeVars, deleteVars,
                   downloadVars, combineCalls>>

\* if (!response.ok) throw new Error('B2 authorization failed: ...')
AuthorizeFails ==
    /\ pc = "auth"
    /\ credentials
    /\ authCalls' = authCalls + 1
    /\ UNCHANGED <<authData, bucket, envVars, peerVars, reqVars, headers,
                   versions, listCalls, listPages, branch, dedupeVars,
                   deleteVars, downloadVars, combineCalls>>
    /\ IF Swallowed("auth")
       THEN Resolve
       ELSE /\ Throw("auth")
            /\ UNCHANGED <<bucketId, startFileName, startFileId>>

\* No version of the path: res.status(404).send('Not Found') in the Express
\* handler, new Response(null, {status: 404}) in the worker.
NotFound ==
    IF route = "fetch" THEN SendText(404, NoText) ELSE SendFile(NoData)

\* HEAD: the answer is made from the listing alone.
HeadAnswer(all) ==
    /\ branch' = "head"
    /\ pc' = "done"
    /\ UNCHANGED dedupeVars
    /\ IF Len(all) = 0
       THEN /\ response' = NotFound
            /\ headers' = NoHeaders
       ELSE /\ response' = SendText(200, NoText)
            /\ headers' = HeadersOf(LatestVersion(all))

\* The listing is complete: the code runs on to its next await.
Listed(all) ==
    LET next == AfterListing(all)
        m == VersionsByHash(all)
    IN  IF IsHead(method) THEN HeadAnswer(all)
        ELSE
        /\ headers' = NoHeaders
        /\ CASE next = "zero" ->
                /\ branch' = "zero"
                /\ response' = NotFound
                /\ pc' = "done"
                /\ UNCHANGED dedupeVars
          [] next = "only" ->
                /\ branch' = "only"
                /\ pc' = "download"
                /\ UNCHANGED <<dedupeVars, response>>
          [] OTHER ->
                /\ uniqueVersions' = UniqueVersions(m)
                /\ versionsToDelete' = VersionsToDelete(m)
                /\ IF versionsToDelete' = << >>
                   THEN /\ branch' = AfterDedupe(uniqueVersions', mergeEnabled)
                        /\ pc' = "download"
                   ELSE /\ branch' = "dedupe"
                        /\ pc' = "delete"
                /\ UNCHANGED response

\* One iteration of the while (true) loop of listFileVersions, response ok.
ListPageOk ==
    /\ pc = "list"
    /\ LET data == B2ListFileVersions(BucketContent(bucketId, bucket),
                                      filePath, startFileName, startFileId,
                                      MaxFileCount, cap)
           all == versions \o MatchingFiles(data.files, filePath)
       IN  /\ listCalls' = Append(listCalls, <<startFileName, startFileId>>)
           /\ listPages' = Append(listPages, data)
           /\ versions' = all
           /\ IF MoreResults(data, filePath)
              THEN /\ startFileName' = data.nextFileName
                   /\ startFileId' = data.nextFileId
                   /\ pc' = "list"
                   /\ UNCHANGED <<branch, dedupeVars, response, headers>>
              ELSE /\ Listed(all)
                   /\ UNCHANGED <<startFileName, startFileId>>
    /\ UNCHANGED <<bucket, envVars, peerVars, reqVars, authVars,
                   deleteVars, downloadVars, combineCalls>>

\* if (!response.ok) throw new Error('Failed to list file versions ...')
ListPageFails ==
    /\ pc = "list"
    /\ listCalls' = Append(listCalls, <<startFileName, startFileId>>)
    /\ IF Swallowed("list")
       THEN Listed(versions)
       ELSE /\ Throw("list")
            /\ UNCHANGED <<branch, dedupeVars, headers>>
    /\ UNCHANGED <<bucket, envVars, peerVars, reqVars, authVars,
                   startFileName, startFileId, versions, listPages,
                   deleteVars, downloadVars, combineCalls>>

\* the loop left after its first iteration
DeleteNext_FirstOnly(calls) ==
    /\ pc' = "download"
    /\ branch' = AfterDedupe(uniqueVersions, mergeEnabled)

\* The for loop over versionsToDelete moves on; after the last version the
\* code runs on to its first download.
DeleteNext(calls) ==
    IF Len(calls) < Len(versionsToDelete)
    THEN /\ pc' = "delete"
         /\ UNCHANGED branch
    ELSE /\ pc' = "download"
         /\ branch' = AfterDedupe(uniqueVersions, mergeEnabled)

\* await deleteFileVersion(authData, version.fileId, version.fileName), 2xx
DeleteOk ==
    /\ pc = "delete"
    /\ LET version == versionsToDelete[Len(deleteCalls) + 1]
           calls == Append(deleteCalls, version.fileId)
       IN  /\ version.fileId \in FileIds(bucket)
           /\ bucket' = B2DeleteFileVersion(bucket, version.fileId)
           /\ deleteCalls' = calls
           /\ DeleteNext(calls)
    /\ UNCHANGED <<envVars, peerVars, reqVars, authVars, headers,
                   listVars, dedupeVars, deleteFailed, downloadVars,
                   combineCalls, response>>

\* deleteFileVersion throws on a non-2xx answer
DeleteFails ==
    /\ pc = "delete"
    /\ LET version == versionsToDelete[Len(deleteCalls) + 1]
           calls == Append(deleteCalls, version.fileId)
       IN  /\ deleteCalls' = calls
           /\ deleteFailed' = deleteFailed \cup {version.fileId}
           /\ IF Swallowed("delete")
              THEN /\ DeleteNext(calls)
                   /\ UNCHANGED response
              ELSE /\ Throw("delete")
                   /\ UNCHANGED branch
    /\ UNCHANGED <<bucket, envVars, peerVars, reqVars, authVars,
                   headers, listVars, dedupeVars, downloadVars, combineCalls>>

\* await downloadFile(authData, version.fileId), 2xx
DownloadOk ==
    /\ pc = "download"
    /\ LET targets == DownloadTargets(branch, versions, uniqueVersions)
           version == targets[Len(downloadCalls) + 1]
           fileData == FileBytes(version.fileId)
       IN  /\ version.fileId \in FileIds(bucket)
           /\ downloadCalls' = Append(downloadCalls, version.fileId)
           /\ pdfBuffers' = Append(pdfBuffers, fileData)
           /\ IF branch # "merge"
              THEN /\ response' = SendFile(fileData)
                   /\ pc' = "done"
              ELSE /\ pc' = IF MoreDownloads(downloadCalls', targets)
                            THEN "download" ELSE "combine"
                   /\ UNCHANGED response
    /\ UNCHANGED <<bucket, envVars, peerVars, reqVars, authVars,
                   headers, listVars, branch, dedupeVars, deleteVars,
                   combineCalls>>

\* if (!response.ok) throw new Error('Failed to download file ...')
DownloadFails ==
    /\ pc = "download"
    /\ LET targets == DownloadTargets(branch, versions, uniqueVersions)
           version == targets[Len(downloadCalls) + 1]
       IN  downloadCalls' = Append(downloadCalls, version.fileId)
    /\ Throw("download")
    /\ UNCHANGED <<bucket, envVars, peerVars, reqVars, authVars,
                   headers, listVars, branch, dedupeVars, deleteVars,
                   pdfBuffers, combineCalls>>

\* const combinedPdf = await combinePDFs(pdfBuffers): every buffer loads
CombineOk ==
    /\ pc = "combine"
    /\ \A i \in 1..Len(pdfBuffers) : Loads(pdfBuffers[i], corrupt)
    /\ combineCalls' = combineCalls + 1
    /\ \E date \in Dates :
          response' = SendFile(SavedPdf(MergedPages(pdfBuffers), date))
    /\ pc' = "done"
    /\ UNCHANGED <<bucket, envVars, peerVars, reqVars, authVars,
                   headers, listVars, branch, dedupeVars, deleteVars,
                   downloadVars>>

\* PDFDocument.load throws on some buffer; combinePDFs rethrows
CombineFails ==
    /\ pc = "combine"
    /\ \E i \in 1..Len(pdfBuffers) : ~Loads(pdfBuffers[i], corrupt)
    /\ combineCalls' = combineCalls + 1
    /\ Throw("pdf")
    /\ UNCHANGED <<bucket, envVars, peerVars, reqVars, authVars,
                   headers, listVars, branch, dedupeVars, deleteVars,
                   downloadVars>>

Next ==
    \/ Receive
    \/ AuthorizeNoKeys
    \/ AuthorizeOk
    \/ AuthorizeFails
    \/ ListPageOk
    \/ ListPageFails
    \/ DeleteOk
    \/ DeleteFails
    \/ DownloadOk
    \/ DownloadFails
    \/ CombineOk
    \/ CombineFails

\* One request, from its arrival to its answer.
Spec == Init /\ [][Next]_vars

\* Requests for the path one after the other, on the bucket the earlier
\* ones left.
NextRepeat == Next \/ ReceiveNext

SpecRepeat == Init /\ [][NextRepeat]_vars

\* GET and HEAD requests of one path (a .pdf) of the first bucket.
SamePathRequests ==
    [method : {"GET", "HEAD"}, first : {"invoices"}, rest : {ReqPath},
     isPdf : {TRUE}]

\* A request of the path arrives while others are in flight: the handler
\* that has answered (or has not run yet) runs for it.
ReceiveSamePath ==
    /\ pc \in {"idle", "done"}
    /\ prevDeleteFailed' = {}
    /\ prevResponse' = NoResponse
    /\ \E req \in SamePathRequests : Accept(req)

\* A handler that has answered has returned: the request and the answer
\* sent stay with the client, the handler's locals are gone.
Returned ==
    [IdleRequest(<< >>) EXCEPT !.pc = "done", !.method = method,
                               !.bucketPrefix = bucketPrefix,
                               !.filePath = filePath, !.isPdf = isPdf,
                               !.route = route, !.response = response,
                               !.headers = headers]

\* The running handler is suspended at its await, or has returned, and the
\* event loop goes on with another request.
Switch ==
    /\ parked' = CASE pc = "idle" -> IdleRequest(<< >>)
                   [] pc = "done" -> Returned
                   [] OTHER -> Running
    /\ Resume(parked)
    /\ UNCHANGED <<bucket, envVars, uploads>>

\* The version a client uploads to the path: it is the newest one, listed
\* after every version the path has.
NewVersion(id, sha) ==
    [fileId |-> id, fileName |-> ReqPath, action |-> "upload",
     contentSha1 |-> sha, contentLength |-> 100 + id,
     contentType |-> IF id % 2 = 1 THEN "application/pdf" ELSE ""]

\* The fingerprints an upload may have: one the bucket holds, or the next
\* number for a new one.
ShaChoices(files) ==
    {sha \in 1..MaxSha :
        sha = 1 \/ \E i \in 1..Len(files) : files[i].contentSha1 >= sha - 1}

\* Another client of the bucket uploads a version of the path.
Upload ==
    /\ uploads < MaxUploads
    /\ uploads' = uploads + 1
    /\ \E sha \in ShaChoices(bucket) :
          bucket' = SelectSeq(bucket, LAMBDA f :
                                  ~NameLess(ReqPath, f.fileName))
                      \o <<NewVersion(MaxVersions + uploads + 1, sha)>>
                      \o SelectSeq(bucket, LAMBDA f :
                                  NameLess(ReqPath, f.fileName))
    /\ UNCHANGED <<envVars, parked, reqVars, authVars, pc, listVars, branch,
                   dedupeVars, deleteVars, downloadVars, combineCalls,
                   response, headers>>

\* Requests of one path in flight together, while the path gets new
\* versions.  The bucket holds uploads of the path only, never more than
\* MaxVersions of them, and the server answers the listing in pages of
\* MaxPageSize versions.
InitConcurrent ==
    /\ Init
    /\ credentials
    /\ corrupt = {}
    /\ cap = MaxPageSize
    /\ Len(bucket) + MaxUploads <= MaxVersions
    /\ \A i \in 1..Len(bucket) :
          bucket[i].fileName = ReqPath /\ bucket[i].action = "upload"

\* The credentials are set and every stored version is a PDF document
\* (InitConcurrent), so the handshake finds its keys and every buffer loads.
NextConcurrent ==
    \/ ReceiveSamePath
    \/ AuthorizeOk
    \/ AuthorizeFails
    \/ ListPageOk
    \/ ListPageFails
    \/ DeleteOk
    \/ DeleteFails
    \/ DownloadOk
    \/ DownloadFails
    \/ CombineOk
    \/ Switch
    \/ Upload

SpecConcurrent == InitConcurrent /\ [][NextConcurrent]_vars

\* ------------------------------------------------- the worker (src/index.js)
\* The requests the worker is sent: the path is the file name, there is no
\* bucket prefix.
WorkerRequests ==
    [method : {"GET", "HEAD"}, path : {ReqPath}, isPdf : BOOLEAN]
        \cup [method : {"GET", "HEAD"}, path : {HealthPath, NoName},
              isPdf : {FALSE}]
        \cup [method : {"POST"}, path : {ReqPath}, isPdf : {FALSE}]

\* B2_BUCKET_ID=bucket_1
B2BucketId == "bucket_1"

\* headers: { 'Content-Type': 'text/plain' }
TextHeaders == [contentType |-> "text/plain", contentLength |-> 0]

\* fetch(request, env): 405 for a method other than GET and HEAD, the text
\* (with its Content-Type) for the empty path; every other request, GET
\* /health among them, goes on to b2Authorize.
WorkerAccept(req) ==
    /\ method' = req.method
    /\ bucketPrefix' = NoSegment
    /\ filePath' = req.path
    /\ isPdf' = req.isPdf
    /\ route' = "fetch"
    /\ Fresh
    /\ CASE req.method \notin {"GET", "HEAD"} ->
                /\ response' = SendText(405, NoText)
                /\ headers' = NoHeaders
                /\ pc' = "done"
         [] req.method \in {"GET", "HEAD"} /\ req.path = NoName ->
                /\ response' = SendText(200, PlainText("Backblaze B2 Proxy"))
                /\ headers' = IF IsHead(req.method) THEN TextHeaders
                              ELSE NoHeaders
                /\ pc' = "done"
         [] OTHER ->
                /\ response' = NoResponse
                /\ headers' = NoHeaders
                /\ pc' = "auth"
    /\ UNCHANGED <<bucket, envVars, peerVars>>

ReceiveWorker ==
    /\ pc = "idle"
    /\ prevDeleteFailed' = {}
    /\ prevResponse' = NoResponse
    /\ \E req \in WorkerRequests : WorkerAccept(req)

\* b2Authorize(env) has returned: the handler reads B2_BUCKET_ID and starts
\* listFileVersions for the path.
WorkerAuthorizeOk ==
    /\ pc = "auth"
    /\ credentials
    /\ authCalls' = authCalls + 1
    /\ authData' = TRUE
    /\ bucketId' = B2BucketId
    /\ IF B2BucketId = NoBucket
       THEN /\ Throw("bucket")
            /\ UNCHANGED <<startFileName, startFileId>>
       ELSE /\ startFileName' = filePath
            /\ startFileId' = NoId
            /\ pc' = "list"
            /\ UNCHANGED response
    /\ UNCHANGED <<bucket, envVars, peerVars, reqVars, headers, versions,
                   listCalls, listPages, branch, dedupeVars, deleteVars,
                   downloadVars, combineCalls>>

\* The handshake is sent whether the keys are set or not (the worker does
\* not test them) and B2 answers non-2xx: b2Authorize throws.
WorkerAuthorizeFails ==
    /\ pc = "auth"
    /\ authCalls' = authCalls + 1
    /\ Throw("auth")
    /\ UNCHANGED <<authData, bucketId, startFileName, startFileId, bucket,
                   envVars, peerVars, reqVars, headers, versions, listCalls,
                   listPages, branch, dedupeVars, deleteVars, downloadVars,
                   combineCalls>>

NextWorker ==
    \/ ReceiveWorker
    \/ WorkerAuthorizeOk
    \/ WorkerAuthorizeFails
    \/ ListPageOk
    \/ ListPageFails
    \/ DeleteOk
    \/ DeleteFails
    \/ DownloadOk
    \/ DownloadFails
    \/ CombineOk
    \/ CombineFails

\* One request to the worker, from its arrival to its answer.
SpecWorker == Init /\ [][NextWorker]_vars

\* A GET and its repetitions, on the bucket the GET before left.
NextConverge == Next \/ ReceiveAgain

SpecConverge == Init /\ [][NextConverge]_vars

\* =================================================================== claims
\* The listing has returned (no page failed) and the code has moved on.
ListingDone ==
    /\ listCalls # << >>
    /\ pc # "list"
    /\ Len(listCalls) = Len(listPages)

\* The same, of a GET request.
GetListed == ListingDone /\ method = "GET"

\* The versions have been partitioned into uniqueVersions / versionsToDelete.
Partitioned == branch \in {"dedupe", "one_unique", "no_merge", "merge"}

\* No download has answered non-2xx.
DownloadsOk == Len(pdfBuffers) = Len(downloadCalls)

\* The indices of the versions that are the first of their hash.
Firsts(vs) ==
    {i \in 1..Len(vs) :
        \A j \in 1..(i - 1) : vs[j].contentSha1 # vs[i].contentSha1}

\* C1: whenever a version list (of two or more records) has been partitioned,
\* survivors and toDelete share no version, together they are exactly the
\* enumerated versions, and no version is listed twice.
C1_PartitionIsASplit ==
    Partitioned =>
        /\ Len(versions) >= 2
        /\ FileIds(uniqueVersions) \cap FileIds(versionsToDelete) = {}
        /\ FileIds(uniqueVersions) \cup FileIds(versionsToDelete)
               = FileIds(versions)
        /\ Len(uniqueVersions) + Len(versionsToDelete) = Len(versions)

C1_Witness ==
    /\ Partitioned
    /\ Len(uniqueVersions) = 2
    /\ Len(versionsToDelete) = 1

\* C2: the survivor of each fingerprint group is its earliest-enumerated
\* record, every other record of the group is marked for deletion, and the
\* survivors are listed in the order their fingerprints first appear.
C2_SurvivorIsEarliest ==
    Partitioned =>
        LET firsts == Firsts(versions)
        IN  /\ Len(uniqueVersions) = Cardinality(firsts)
            /\ \A i \in firsts :
                  uniqueVersions[Cardinality({j \in firsts : j <= i})]
                      = versions[i]
            /\ FileIds(versionsToDelete)
                  = {versions[i].fileId : i \in (1..Len(versions)) \ firsts}

C2_Witness ==
    /\ Partitioned
    /\ Len(versions) = 3
    /\ versions[1].contentSha1 = versions[3].contentSha1
    /\ versions[1].contentSha1 # versions[2].contentSha1
    /\ IdSeq(uniqueVersions) = <<versions[1].fileId, versions[2].fileId>>

\* C3: a GET whose listing yields no eligible version answers 404 and has
\* called neither downloadFile nor deleteFileVersion.
C3_ZeroVersionsNotFound ==
    (pc = "done" /\ GetListed /\ Len(versions) = 0) =>
        /\ branch = "zero"
        /\ response = [status |-> 404, body |-> NoData, error |-> "",
                       text |-> PlainText("Not Found")]
        /\ downloadCalls = << >>
        /\ deleteCalls = << >>
        /\ combineCalls = 0

C3_Witness ==
    /\ pc = "done"
    /\ branch = "zero"
    /\ response.status = 404
    /\ \E i \in 1..Len(bucket) :
          bucket[i].fileName = ReqPath /\ bucket[i].action = "hide"
    /\ \E i \in 1..Len(bucket) : bucket[i].fileName = SiblingPath

\* C4: a GET whose listing yields exactly one eligible version calls
\* downloadFile once, with that version's id, never deleteFileVersion, and
\* answers 200 with that version's bytes (the download answering 2xx).
C4_OneVersionPassThrough ==
    (pc = "done" /\ GetListed /\ Len(versions) = 1) =>
        /\ branch = "only"
        /\ deleteCalls = << >>
        /\ combineCalls = 0
        /\ downloadCalls = <<versions[1].fileId>>
        /\ DownloadsOk =>
              response = [status |-> 200,
                          body |-> FileBytes(versions[1].fileId),
                          error |-> "", text |-> NoText]

C4_Witness ==
    /\ pc = "done"
    /\ Len(versions) = 1
    /\ response.status = 200
    /\ response.body = FileBytes(versions[1].fileId)
    /\ Len(bucket) = 3

\* Every listed version has the fingerprint of the first one.
OneFingerprint ==
    \A i \in 1..Len(versions) :
        versions[i].contentSha1 = versions[1].contentSha1

\* C5: when the N >= 2 listed versions share one fingerprint, the GET calls
\* deleteFileVersion exactly once for each version but the oldest (N - 1
\* calls), downloads only the oldest and answers with its bytes, without
\* merging, whatever the merge setting.
C5_AllDuplicates ==
    (pc = "done" /\ GetListed /\ Len(versions) >= 2 /\ OneFingerprint) =>
        /\ branch = "one_unique"
        /\ Len(deleteCalls) = Len(versions) - 1
        /\ deleteCalls = IdSeq(Tail(versions))
        /\ downloadCalls = <<versions[1].fileId>>
        /\ combineCalls = 0
        /\ DownloadsOk =>
              response = [status |-> 200,
                          body |-> FileBytes(versions[1].fileId),
                          error |-> "", text |-> NoText]

C5_Witness ==
    /\ pc = "done"
    /\ Len(versions) = 3
    /\ OneFingerprint
    /\ mergeEnabled
    /\ Len(deleteCalls) = 2
    /\ response.status = 200

\* C6: with more than one survivor and merge not requested, the GET issues
\* exactly one download, of survivors[0], which is the earliest-listed
\* version of all; combinePDFs is never called and the answer is that
\* version's bytes.
C6_NoMergeReturnsFirstSurvivor ==
    (pc = "done" /\ Len(uniqueVersions) > 1 /\ ~mergeEnabled) =>
        /\ branch = "no_merge"
        /\ \A i \in 1..Len(versions) :
              uniqueVersions[1].fileId <= versions[i].fileId
        /\ downloadCalls = <<uniqueVersions[1].fileId>>
        /\ combineCalls = 0
        /\ DownloadsOk =>
              response = [status |-> 200,
                          body |-> FileBytes(uniqueVersions[1].fileId),
                          error |-> "", text |-> NoText]

C6_Witness ==
    /\ pc = "done"
    /\ Len(uniqueVersions) = 2
    /\ Len(versionsToDelete) = 1
    /\ ~mergeEnabled
    /\ isPdf
    /\ response.status = 200
    /\ response.body = FileBytes(uniqueVersions[1].fileId)

\* The number of pages of the survivors before the i-th.
RECURSIVE PagesBefore(_, _)
PagesBefore(vs, i) ==
    IF i <= 1 THEN 0
    ELSE PagesBefore(vs, i - 1) + PageCount(vs[i - 1].fileId)

\* Page k of survivor i is page PagesBefore(i) + k of the output.
IsConcatenationOf(pages, vs) ==
    /\ Len(pages) = PagesBefore(vs, Len(vs) + 1)
    /\ \A i \in 1..Len(vs) : \A k \in 1..PageCount(vs[i].fileId) :
          pages[PagesBefore(vs, i) + k] = <<vs[i].fileId, k>>

\* C7: with more than one survivor and merge requested, the survivors are
\* downloaded one by one in survivor order, each once, and the merged
\* document holds the pages of each survivor, in its page order, survivor
\* after survivor.
C7_MergeConcatenatesInOrder ==
    (pc = "done" /\ Len(uniqueVersions) > 1 /\ mergeEnabled) =>
        /\ branch = "merge"
        /\ Len(downloadCalls) <= Len(uniqueVersions)
        /\ downloadCalls = SubSeq(IdSeq(uniqueVersions), 1, Len(downloadCalls))
        /\ DownloadsOk =>
              /\ downloadCalls = IdSeq(uniqueVersions)
              /\ combineCalls = 1
        /\ (DownloadsOk /\ FileIds(uniqueVersions) \cap corrupt = {}) =>
              /\ response.status = 200
              /\ response.body.kind = "pdf"
              /\ IsConcatenationOf(response.body.pages, uniqueVersions)

C7_Witness ==
    /\ pc = "done"
    /\ mergeEnabled
    /\ Len(uniqueVersions) = 3
    /\ response.status = 200
    /\ Len(response.body.pages) = 5

\* The answer the pipeline gives on the survivors when every download and
\* every PDF load succeeds, for the date the merged document was created at;
\* the outcome of the deletes is no part of it.
ExpectedBody ==
    IF Len(uniqueVersions) = 1 \/ ~mergeEnabled
    THEN FileBytes(uniqueVersions[1].fileId)
    ELSE SavedPdf(MergedPages([i \in 1..Len(uniqueVersions) |->
                                  FileBytes(uniqueVersions[i].fileId)]),
                  response.body.created)

\* C8: whichever deletes fail, deleteFileVersion is still called for every
\* record of toDelete, in order, and the GET answers 200 with the same body
\* as it would with every delete succeeding (downloads and PDF loads
\* succeeding).
C8_DeleteFailuresAreSwallowed ==
    (pc = "done" /\ GetListed /\ Len(versions) >= 2) =>
        /\ deleteCalls = IdSeq(versionsToDelete)
        /\ deleteFailed \subseteq FileIds(versionsToDelete)
        /\ response.error # "delete"
        /\ (/\ DownloadsOk
            /\ branch = "merge" => FileIds(uniqueVersions) \cap corrupt = {}) =>
              response = [status |-> 200, body |-> ExpectedBody,
                          error |-> "", text |-> NoText]

C8_Witness ==
    /\ pc = "done"
    /\ Len(deleteCalls) = 2
    /\ deleteCalls[1] \in deleteFailed
    /\ deleteCalls[2] \notin deleteFailed
    /\ deleteCalls[2] \notin FileIds(bucket)
    /\ deleteCalls[1] \in FileIds(bucket)
    /\ response.status = 200

\* The exact-name uploads of the pages, page after page.
RECURSIVE ExactUploads(_)
ExactUploads(pages) ==
    IF pages = << >> THEN << >>
    ELSE ExactUploads(SubSeq(pages, 1, Len(pages) - 1))
            \o SelectSeq(pages[Len(pages)].files, LAMBDA f :
                    f.fileName = ReqPath /\ f.action = "upload")

\* C9: the first listing call starts at the requested path; a call follows a
\* page only if that page's nextFileName is the requested path, and it is
\* seeded with that page's nextFileName/nextFileId; the listing ends with
\* the first page whose nextFileName is absent or another name, and its
\* result is the exact-name uploads of the pages fetched, in order.
C9_PaginationStopsAtFirstOtherName ==
    /\ Len(listPages) <= Len(listCalls)
    /\ Len(listCalls) <= Len(listPages) + 1
    /\ Len(listCalls) >= 1 => listCalls[1] = <<ReqPath, NoId>>
    /\ \A i \in 1..Len(listPages) :
          IF i < Len(listCalls) \/ pc = "list"
          THEN listPages[i].nextFileName = ReqPath
          ELSE listPages[i].nextFileName # ReqPath
    /\ \A i \in 1..(Len(listCalls) - 1) :
          listCalls[i + 1]
              = <<listPages[i].nextFileName, listPages[i].nextFileId>>
    /\ pc = "list" =>
          /\ Len(listCalls) = Len(listPages)
          /\ <<startFileName, startFileId>>
                = IF listPages = << >> THEN <<ReqPath, NoId>>
                  ELSE <<listPages[Len(listPages)].nextFileName,
                         listPages[Len(listPages)].nextFileId>>
    /\ ListingDone =>
          /\ Len(listPages) >= 1
          /\ versions = ExactUploads(listPages)

C9_Witness ==
    /\ ListingDone
    /\ Len(listPages) = 2
    /\ listPages[1].nextFileName = ReqPath
    /\ listPages[2].nextFileName = SiblingPath
    /\ Len(FromCursor(bucket, ReqPath, SiblingPath, NoId)) = 1
    /\ Len(versions) = 2

\* C10: for every bucket content and page size, the listing returns exactly
\* the bucket's versions named like the path with action upload, each once
\* and in listing order; names that only start with the path and hide
\* markers are not in it.  (Stated of the bucket the prefix maps to, while
\* the request has deleted nothing.)
C10_EnumerationIsExact ==
    (ListingDone /\ deleteCalls = << >>) =>
        /\ versions = SelectSeq(BucketContent(bucketId, bucket), LAMBDA f :
                          f.fileName = ReqPath /\ f.action = "upload")
        /\ \A i \in 1..Len(versions) : \A j \in 1..Len(versions) :
              i < j => versions[i].fileId < versions[j].fileId

C10_Witness ==
    /\ ListingDone
    /\ deleteCalls = << >>
    /\ cap = 1
    /\ Len(bucket) = 3
    /\ bucket[1].action = "hide"
    /\ bucket[2].action = "upload" /\ bucket[2].fileName = ReqPath
    /\ bucket[3].fileName = SiblingPath
    /\ IdSeq(versions) = <<2>>

\* ---------------------------------------------------------- claims, part 2
\* A listing page has answered non-2xx.
ListFailed == Len(listCalls) > Len(listPages)

\* No call of deleteFileVersion, downloadFile or combinePDFs has been made,
\* and the bucket is as the request found it.
NoFileCalls ==
    /\ deleteCalls = << >>
    /\ downloadCalls = << >>
    /\ combineCalls = 0
    /\ bucket = bucketAtStart

\* C11: when a listing page answers non-2xx the request ends at once with a
\* 500 answer; the records of the earlier pages are neither partitioned nor
\* answered from, and no download, delete or combine call is made.
C11_ListFailureAborts ==
    ListFailed =>
        /\ pc = "done"
        /\ Len(listCalls) = Len(listPages) + 1
        /\ response = [status |-> 500, body |-> NoData, error |-> "list",
                       text |-> NoText]
        /\ headers = NoHeaders
        /\ branch = "none"
        /\ uniqueVersions = << >>
        /\ versionsToDelete = << >>
        /\ NoFileCalls

C11_Witness ==
    /\ ListFailed
    /\ method = "GET"
    /\ Len(listPages) = 1
    /\ Len(versions) = 2
    /\ versions[1].contentSha1 = versions[2].contentSha1
    /\ response.status = 500

\* C12: a HEAD answered 200 carries the Content-Type and Content-Length of
\* the most recent version of the path, the last one of the (oldest to
\* newest) enumeration, and no body.
C12_HeadReturnsMostRecent ==
    (pc = "done" /\ method = "HEAD" /\ ListingDone /\ Len(versions) >= 1) =>
        /\ response = [status |-> 200, body |-> NoData, error |-> "",
                       text |-> NoText]
        /\ headers.contentLength = versions[Len(versions)].contentLength
        /\ headers.contentType
              = IF versions[Len(versions)].contentType # ""
                THEN versions[Len(versions)].contentType
                ELSE "application/octet-stream"

\* C13: a HEAD request calls neither deleteFileVersion nor downloadFile nor
\* combinePDFs and partitions nothing, whatever the versions and their
\* fingerprints; the bucket stays as the request found it.
C13_HeadLeavesStoreAlone ==
    (pc # "idle" /\ method = "HEAD") =>
        /\ NoFileCalls
        /\ uniqueVersions = << >>
        /\ versionsToDelete = << >>
        /\ response.body = NoData

C13_Witness ==
    /\ pc = "done"
    /\ method = "HEAD"
    /\ response.status = 200
    /\ mergeEnabled
    /\ Len(versions) = 3
    /\ versions[1].contentSha1 = versions[2].contentSha1
    /\ versions[1].contentSha1 # versions[3].contentSha1
    /\ bucket = bucketAtStart

\* The request is one that b2Authorize is called for: a non-empty path other
\* than /health.
NeedsAuth == pc \notin {"idle", "auth"} /\ route = "files"
                /\ bucketPrefix # NoSegment

\* C14: a request made without credentials, or whose handshake answers
\* non-2xx, is answered 500 with the authorization error; the handshake was
\* sent at most once (never without credentials), and no listing, download
\* or delete call is made.
C14_AuthFailureAborts ==
    /\ authCalls <= 1
    /\ (NeedsAuth /\ (~credentials \/ ~authData)) =>
          /\ pc = "done"
          /\ response = [status |-> 500, body |-> NoData,
                         error |-> IF credentials THEN "auth" ELSE "keys",
                         text |-> NoText]
          /\ authCalls = IF credentials THEN 1 ELSE 0
          /\ listCalls = << >>
          /\ NoFileCalls

C14_Witness ==
    /\ pc = "done"
    /\ credentials
    /\ ~authData
    /\ authCalls = 1
    /\ response.status = 500
    /\ bucketPrefix = "invoices"
    /\ filePath = ReqPath
    /\ Len(bucket) = 3

\* C15: more than one download, or a call of combinePDFs, happens only in a
\* GET with more than one survivor, MERGE_PDF_VERSIONS set and a .pdf path;
\* in every other case at most one version is downloaded and combinePDFs is
\* not called.
C15_MergeOnlyWhenRequested ==
    /\ (Len(downloadCalls) > 1 \/ combineCalls > 0) =>
          /\ method = "GET"
          /\ Len(uniqueVersions) > 1
          /\ mergeVersions
          /\ isPdf
          /\ branch = "merge"
    /\ ~(mergeVersions /\ isPdf /\ Len(uniqueVersions) > 1) =>
          /\ Len(downloadCalls) <= 1
          /\ combineCalls = 0
    /\ combineCalls <= 1

C15_Witness ==
    /\ pc = "done"
    /\ mergeVersions
    /\ ~isPdf
    /\ Len(uniqueVersions) = 3
    /\ Len(downloadCalls) = 1
    /\ combineCalls = 0
    /\ response.status = 200

\* C16: when combinePDFs is given a buffer that is no PDF document, the
\* request is answered 500 with no body: the pages of the buffers that did
\* load are not returned.
C16_CorruptSurvivorAborts ==
    (pc = "done" /\ combineCalls > 0
        /\ FileIds(uniqueVersions) \cap corrupt # {}) =>
        /\ response = [status |-> 500, body |-> NoData, error |-> "pdf",
                       text |-> NoText]
        /\ headers = NoHeaders

C16_Witness ==
    /\ pc = "done"
    /\ combineCalls = 1
    /\ Len(uniqueVersions) = 3
    /\ corrupt = {uniqueVersions[2].fileId}
    /\ Len(pdfBuffers) = 3
    /\ response.status = 500

\* C17: the first path segment picks the bucket out of B2_BUCKET_MAP and the
\* rest of the path is the file listed in it; when the first segment is no
\* key of the map, the request (its handshake done) is answered 404 with a
\* text naming the keys of the map, and no listing, download or delete call
\* is made.  (Not so for a first segment that names a property the map
\* inherits: bucketMap['constructor'] is truthy and the listing is called.)
C17_PrefixSelectsBucket ==
    /\ listCalls # << >> =>
          /\ bucketPrefix \in {"invoices", "reports"}
          /\ bucketId = (IF bucketPrefix = "invoices" THEN "bucket_1"
                         ELSE "bucket_2")
          /\ filePath # NoName
          /\ listCalls[1] = <<filePath, NoId>>
    /\ (authData /\ bucketPrefix \notin {"invoices", "reports"}) =>
          /\ pc = "done"
          /\ response = [status |-> 404, body |-> NoData, error |-> "",
                         text |-> [what |-> "Bucket prefix not found",
                                   prefix |-> bucketPrefix,
                                   available |-> {"invoices", "reports"}]]
          /\ listCalls = << >>
          /\ NoFileCalls

\* The request is GET /health: the Express handler reads the first segment
\* 'health' with nothing after it, the worker the path 'health'.
HealthRequested ==
    /\ pc # "idle"
    /\ method = "GET"
    /\ \/ route # "fetch" /\ bucketPrefix = "health" /\ filePath = NoName
       \/ route = "fetch" /\ filePath = HealthPath

\* C18: GET /health is answered 200 "OK" whatever the credentials, the
\* settings and the bucket, and makes no upstream call: no handshake, no
\* listing, no download, no delete.  (So the Express server; the worker has
\* no such route and takes the request through the handshake and the
\* listing.)
C18_HealthAlwaysOk ==
    HealthRequested =>
        /\ pc = "done"
        /\ response = [status |-> 200, body |-> NoData, error |-> "",
                       text |-> PlainText("OK")]
        /\ authCalls = 0
        /\ ~authData
        /\ listCalls = << >>
        /\ NoFileCalls

\* The set of the ids deleteFileVersion has been called with.
Attempted == {deleteCalls[i] : i \in 1..Len(deleteCalls)}

\* C19: a version whose delete failed in the request before is still in the
\* bucket when the next request arrives, and a GET of the same path that
\* follows puts it in versionsToDelete again and calls deleteFileVersion for
\* it.
C19_FailedDeleteIsRetried ==
    /\ deleteFailed \subseteq FileIds(bucket)
    /\ prevDeleteFailed \subseteq FileIds(bucketAtStart)
    /\ (pc = "done" /\ GetListed /\ bucketPrefix = "invoices"
          /\ filePath = ReqPath) =>
          /\ prevDeleteFailed \subseteq FileIds(versionsToDelete)
          /\ prevDeleteFailed \subseteq Attempted

C19_Witness ==
    /\ pc = "done"
    /\ GetListed
    /\ Cardinality(prevDeleteFailed) = 1
    /\ Len(versions) = 2
    /\ prevDeleteFailed = Attempted
    /\ deleteFailed = {}
    /\ Len(bucket) = 1

\* C20: the calls of one request come in phases: listFileVersions fetches a
\* page only after b2Authorize has returned the session; deleteFileVersion
\* and downloadFile are called only once the listing is complete; and
\* combinePDFs is called only after every survivor has been downloaded.
C20_PhaseOrder ==
    /\ listCalls # << >> => (authData /\ authCalls = 1)
    /\ (deleteCalls # << >> \/ downloadCalls # << >>) => ListingDone
    /\ (pc = "combine" \/ combineCalls > 0) =>
          /\ downloadCalls = IdSeq(uniqueVersions)
          /\ Len(pdfBuffers) = Len(uniqueVersions)
          /\ Len(deleteCalls) = Len(versionsToDelete)

C20_Witness ==
    /\ pc = "done"
    /\ authCalls = 1
    /\ Len(listCalls) = 2
    /\ Len(deleteCalls) = 1
    /\ Len(downloadCalls) = 2
    /\ combineCalls = 1
    /\ response.status = 200

\* ---------------------------------------------------------- claims, part 3
\* No element of the sequence occurs twice.
NoRepeats(calls) ==
    \A i \in 1..Len(calls) : \A j \in 1..Len(calls) :
        i # j => calls[i] # calls[j]

\* A download has answered non-2xx.
DownloadFailed == Len(downloadCalls) > Len(pdfBuffers)

\* The handshake has answered non-2xx.
HandshakeFailed == authCalls > 0 /\ ~authData

\* C21: within one request the handshake is sent at most once, no listing
\* cursor is requested twice, deleteFileVersion is called at most once for
\* each version of versionsToDelete and for no other, and no version is
\* downloaded twice; a failed handshake, listing page or download ends the
\* request with a 500 answer at once, while after a failed delete the loop
\* goes on to the end of versionsToDelete and the error is not the answer.
C21_NoRetries ==
    /\ authCalls <= 1
    /\ NoRepeats(listCalls)
    /\ NoRepeats(deleteCalls)
    /\ Attempted \subseteq FileIds(versionsToDelete)
    /\ NoRepeats(downloadCalls)
    /\ (HandshakeFailed \/ ListFailed \/ DownloadFailed) =>
          /\ pc = "done"
          /\ response.status = 500
          /\ response.error = (IF HandshakeFailed THEN "auth"
                               ELSE IF ListFailed THEN "list"
                               ELSE "download")
          /\ Len(listCalls) <= Len(listPages) + 1
          /\ Len(downloadCalls) <= Len(pdfBuffers) + 1
    /\ deleteFailed # {} =>
          /\ response.error # "delete"
          /\ pc \notin {"delete", "list"} =>
                deleteCalls = IdSeq(versionsToDelete)

C21_Witness ==
    /\ pc = "done"
    /\ authCalls = 1
    /\ Len(listCalls) = 2
    /\ Len(deleteCalls) = 1
    /\ deleteFailed # {}
    /\ Len(downloadCalls) = 2
    /\ DownloadFailed
    /\ response.status = 500

\* C22: when a download answers non-2xx the request is answered 500 with
\* the error message and no file bytes; in the merge branch combinePDFs is
\* not called and the buffers already downloaded are not returned.
C22_DownloadFailureAborts ==
    DownloadFailed =>
        /\ pc = "done"
        /\ response = [status |-> 500, body |-> NoData,
                       error |-> "download", text |-> NoText]
        /\ Len(downloadCalls) = Len(pdfBuffers) + 1
        /\ combineCalls = 0
        /\ headers = NoHeaders

C22_Witness ==
    /\ DownloadFailed
    /\ branch = "merge"
    /\ Len(uniqueVersions) = 3
    /\ Len(pdfBuffers) = 2
    /\ response.status = 500
    /\ response.body = NoData

\* C23: partitioning the survivors of a partition again marks nothing for
\* deletion and gives the same survivors in the same order.
C23_PartitionIsIdempotent ==
    Partitioned =>
        LET again == VersionsByHash(uniqueVersions)
        IN  /\ VersionsToDelete(again) = << >>
            /\ UniqueVersions(again) = uniqueVersions

C23_Witness ==
    /\ Partitioned
    /\ Len(versions) = 3
    /\ Len(uniqueVersions) = 2
    /\ Len(versionsToDelete) = 1
    /\ versions[1].contentSha1 = versions[3].contentSha1

\* C26: in a GET with more than one listed version deleteFileVersion has
\* been called for every version of versionsToDelete before the first
\* downloadFile call; a request answered 500 for a download or for
\* combinePDFs has made all these calls, and the versions whose delete
\* succeeded stay deleted.
C26_DeletesBeforeDownloads ==
    /\ (method = "GET" /\ Len(versions) > 1 /\ downloadCalls # << >>) =>
          deleteCalls = IdSeq(versionsToDelete)
    /\ (pc = "done" /\ Len(versions) > 1
          /\ response.error \in {"download", "pdf"}) =>
          /\ deleteCalls = IdSeq(versionsToDelete)
          /\ FileIds(bucket)
                = FileIds(bucketAtStart) \ (Attempted \ deleteFailed)

C26_Witness ==
    /\ pc = "done"
    /\ response.error = "pdf"
    /\ Len(versions) = 3
    /\ Len(deleteCalls) = 1
    /\ deleteFailed = {}
    /\ Len(bucket) = 2
    /\ Len(bucketAtStart) = 3

\* The uploads of the requested path in its bucket have pairwise different
\* fingerprints.
OnePerFingerprint ==
    LET stored == SelectSeq(BucketContent(bucketId, bucket), LAMBDA f :
                      f.fileName = filePath /\ f.action = "upload")
    IN  \A i \in 1..Len(stored) : \A j \in 1..Len(stored) :
            i # j => stored[i].contentSha1 # stored[j].contentSha1

\* The request repeats a GET whose deletes all succeeded.
Repeated == prevResponse # NoResponse

\* Both the GET before and its repetition have answered with a file.
BothAnswered ==
    /\ Repeated
    /\ pc = "done"
    /\ prevResponse.status = 200
    /\ response.status = 200

\* C25 as stated: after a GET whose deletes all succeeded the bucket holds
\* one version for each fingerprint of the path, and the same GET on the
\* unchanged bucket calls deleteFileVersion for nothing and answers with the
\* same bytes.
C25_SameBytesAgain ==
    /\ (pc = "done" /\ GetListed /\ deleteFailed = {}) => OnePerFingerprint
    /\ Repeated => (deleteCalls = << >> /\ versionsToDelete = << >>)
    /\ BothAnswered => response = prevResponse

\* C25, amended: ... and answers with the same bytes when the answer is one
\* version's bytes, and with the same pages in the same order when it is a
\* merged document, whose creation date is that of the request.
C25_CleanupConverges ==
    /\ (pc = "done" /\ GetListed /\ deleteFailed = {}) => OnePerFingerprint
    /\ Repeated => (deleteCalls = << >> /\ versionsToDelete = << >>)
    /\ BothAnswered =>
          /\ response.body.kind = prevResponse.body.kind
          /\ response.body.of = prevResponse.body.of
          /\ response.body.pages = prevResponse.body.pages
          /\ response.body.kind = "raw" => response = prevResponse

C25_Witness ==
    /\ BothAnswered
    /\ FileIds(bucket) = {1, 3}
    /\ IdSeq(versions) = <<1, 3>>
    /\ response.body.kind = "pdf"
    /\ Len(response.body.pages) = 4
    /\ response.body.created # prevResponse.body.created

\* The requests in flight: the one that runs and the one that is parked.
InFlight == {Running, parked}

\* The ids of the versions a request has yet to call downloadFile for, once
\* its listing is complete.
ToDownload(r) ==
    LET b == IF r.pc = "delete"
             THEN AfterDedupe(r.uniqueVersions, r.isPdf /\ mergeVersions)
             ELSE r.branch
        targets == DownloadTargets(b, r.versions, r.uniqueVersions)
    IN  {targets[k].fileId : k \in (Len(r.downloadCalls) + 1)..Len(targets)}

\* The survivors of every request that is deleting or downloading, and the
\* versions it is about to download, are in the bucket.
SurvivorsStored ==
    \A r \in InFlight :
        r.pc \in {"delete", "download"} =>
            FileIds(r.uniqueVersions) \cup ToDownload(r)
                \subseteq FileIds(bucket)

\* The fingerprints of the path's uploads in a bucket.
FingerprintsOf(files) ==
    {files[i].contentSha1 : i \in {k \in 1..Len(files) :
        files[k].fileName = ReqPath /\ files[k].action = "upload"}}

\* No step takes the last version of a fingerprint out of the bucket.
FingerprintsKept == FingerprintsOf(bucket) \subseteq FingerprintsOf(bucket')

\* C24: with GET and HEAD requests of one path in flight together, in any
\* interleaving of their steps, and new versions of the path uploaded
\* meanwhile (listed after the older ones), every fingerprint the bucket has
\* held keeps a stored version, and no version that a request in flight
\* keeps as a survivor or is about to download is deleted.
C24_NoContentLost == [][FingerprintsKept]_vars /\ []SurvivorsStored

C24_Witness ==
    /\ uploads = 1
    /\ pc = "download"
    /\ deleteCalls = <<2>>
    /\ deleteFailed = {}
    /\ 2 \notin FileIds(bucket)
    /\ parked.pc = "download"
    /\ parked.deleteFailed = {2}
    /\ IdSeq(parked.uniqueVersions) = <<1, MaxVersions + 1>>
    /\ parked.downloadCalls = << >>
    /\ ToDownload(parked) = {1, MaxVersions + 1}

====
